---- MODULE Spec2Model ----
(***************************************************************************)
(* A model of wayrecon (src/wayrecon.py): the Wayback Machine CDX query    *)
(* tool.  Strings are sequences of one-character strings, so that          *)
(* startswith / endswith / lower / strip / lstrip are computed as Python   *)
(* computes them.                                                          *)
(***************************************************************************)
EXTENDS Integers, Sequences, FiniteSets, TLC

VARIABLES
  call,         \* the function under test and its arguments, or the run of main
  result,       \* what the function under test returned
  pc,           \* the main thread's position
  ret,          \* where the main thread goes when LoadingSpinner.stop returns
  args,         \* sys.argv as argparse reads it
  fileWritable, \* whether the -o path can be opened for writing
  normalized_domain, \* the normalized -u value
  cdx_url,      \* the query URL
  retriesLeft,  \* what is left of the Retry budget of the GET under way
  attempts,     \* GET requests sent
  response,     \* the response of the GET
  data,         \* the record collection
  output,       \* the formatted result
  exc,          \* the exception under way, and where it was raised
  spinners,     \* every LoadingSpinner started, in the order of their start
  line,         \* the terminal's status line
  stdout,       \* what the main thread printed
  fileOpens,    \* how often the -o path was opened for writing
  fileState,    \* the file at the -o path: untouched, truncated or written
  exitStatus,   \* the process's exit status
  interrupts    \* SIGINTs delivered

runVars == <<pc, ret, args, fileWritable, normalized_domain, cdx_url, retriesLeft, attempts,
             response, data, output, exc, spinners, line, stdout, fileOpens, fileState,
             exitStatus, interrupts>>
vars == <<call, result, pc, ret, args, fileWritable, normalized_domain, cdx_url, retriesLeft,
          attempts, response, data, output, exc, spinners, line, stdout, fileOpens, fileState,
          exitStatus, interrupts>>

(***************************************************************************)
(* Python str operations                                                   *)
(***************************************************************************)

\* the characters with an upper-case form that the inputs below use
LowerChar(c) ==
  CASE c = "W" -> "w"
    [] c = "A" -> "a"
    [] c = "H" -> "h"
    [] c = "T" -> "t"
    [] c = "P" -> "p"
    [] c = "J" -> "j"
    [] c = "S" -> "s"
    [] OTHER -> c

\* str.lower()
Lower(s) == [i \in 1..Len(s) |-> LowerChar(s[i])]

\* str.startswith(p)
StartsWith(s, p) == Len(s) >= Len(p) /\ SubSeq(s, 1, Len(p)) = p

\* str.endswith(p)
EndsWith(s, p) == Len(s) >= Len(p) /\ SubSeq(s, Len(s) - Len(p) + 1, Len(s)) = p

\* p in s
Contains(s, p) == \E i \in 1..(Len(s) - Len(p) + 1) : SubSeq(s, i, i + Len(p) - 1) = p

IsSpace(c) == c \in {" ", "\n"}

RECURSIVE LStripSpace(_)
LStripSpace(s) == IF s # <<>> /\ IsSpace(Head(s)) THEN LStripSpace(Tail(s)) ELSE s

RECURSIVE RStripSpace(_)
RStripSpace(s) ==
  IF s # <<>> /\ IsSpace(s[Len(s)]) THEN RStripSpace(SubSeq(s, 1, Len(s) - 1)) ELSE s

\* str.strip()
Strip(s) == RStripSpace(LStripSpace(s))

\* str.lstrip('.'): every leading dot goes
RECURSIVE LStripDots(_)
LStripDots(s) == IF s # <<>> /\ Head(s) = "." THEN LStripDots(Tail(s)) ELSE s

\* all sequences over S of length at most n
RECURSIVE SeqsUpTo(_, _)
SeqsUpTo(S, n) ==
  IF n = 0 THEN {<<>>}
  ELSE LET shorter == SeqsUpTo(S, n - 1)
       IN  shorter \cup {Append(s, x) : s \in {t \in shorter : Len(t) = n - 1}, x \in S}

(***************************************************************************)
(* WaybackCDXQuery.normalize_domain                                        *)
(***************************************************************************)

S_http == <<"h", "t", "t", "p", ":", "/", "/">>
S_https == <<"h", "t", "t", "p", "s", ":", "/", "/">>
S_www == <<"w", "w", "w", ".">>
S_sep == <<":", "/", "/">>

\* urlparse(url).netloc for a url that starts with http:// or https://: what
\* follows the "//" up to the first "/", "?" or "#"
RECURSIVE UpToDelim(_)
UpToDelim(s) ==
  IF s = <<>> \/ Head(s) \in {"/", "?", "#"} THEN <<>>
  ELSE <<Head(s)>> \o UpToDelim(Tail(s))

Netloc(url) ==
  LET rest == IF StartsWith(url, S_https)
              THEN SubSeq(url, Len(S_https) + 1, Len(url))
              ELSE SubSeq(url, Len(S_http) + 1, Len(url))
  IN  UpToDelim(rest)

StripProtocol(raw) ==
  IF StartsWith(raw, S_http) \/ StartsWith(raw, S_https)
  THEN Netloc(raw) ELSE raw

StripWww(raw) ==
  IF StartsWith(raw, S_www) THEN SubSeq(raw, 5, Len(raw)) ELSE raw

normalize_domain(raw) == Strip(Lower(StripWww(StripProtocol(raw))))

\* ---- inputs of the normalizer: scheme, two prefixes, a short body
MaxBody == 3

S_HTTP == <<"H", "T", "T", "P", ":", "/", "/">>
S_WWW == <<"W", "W", "W", ".">>
Schemes == {<<>>, S_http, S_https, S_HTTP}
Prefixes == {<<>>, S_www, S_WWW, <<" ">>}
BodyChars == {"a", "A", ".", "/", " "}
\* main never passes an empty -u value on (line 487)
DomainInputs ==
  {sc \o p1 \o p2 \o b : sc \in Schemes, p1 \in Prefixes, p2 \in Prefixes,
                         b \in SeqsUpTo(BodyChars, MaxBody)} \ {<<>>}

NoResult == [fn |-> "none"]
NoArgs == [kind |-> "none"]
NoResponse == [ctype |-> "none", valid |-> FALSE, items |-> <<>>, text |-> <<>>]
NoException == [type |-> "none", origin |-> "none"]
NoOutput == [fmt |-> "none", rows |-> <<>>]
NoUrl == [url |-> <<>>, output |-> "none", fl |-> "none"]

\* the state of a process in which main has not been entered
RunFields(p, a, w) ==
  /\ pc = p
  /\ ret = "none"
  /\ args = a
  /\ fileWritable = w
  /\ normalized_domain = <<>>
  /\ cdx_url = NoUrl
  /\ retriesLeft = 0
  /\ attempts = 0
  /\ response = NoResponse
  /\ data = <<>>
  /\ output = NoOutput
  /\ exc = NoException
  /\ spinners = <<>>
  /\ line = "clear"
  /\ stdout = <<>>
  /\ fileOpens = 0
  /\ fileState = "untouched"
  /\ exitStatus = -1
  /\ interrupts = 0

\* a function called on its own: no run of main
NoRun == RunFields("idle", NoArgs, FALSE)

InitNormalize ==
  /\ call \in {[fn |-> "normalize_domain", domain |-> d] : d \in DomainInputs}
  /\ result = NoResult
  /\ NoRun

\* normalize_domain applied once, and once more to its own output
ApplyNormalize ==
  /\ call.fn = "normalize_domain"
  /\ result = NoResult
  /\ result' = [fn |-> "normalize_domain",
                once |-> normalize_domain(call.domain),
                twice |-> normalize_domain(normalize_domain(call.domain))]
  /\ UNCHANGED <<call, runVars>>

NextNormalize == ApplyNormalize

SpecNormalize == InitNormalize /\ [][NextNormalize]_vars

Normalized == result.fn = "normalize_domain"

\* C5: normalize_domain is idempotent: normalizing its output again changes nothing
C5_Idempotent == Normalized => result.twice = result.once

\* the Domain invariant of the data model
DomainInvariant(d) ==
  /\ d = Lower(d)
  /\ d = Strip(d)
  /\ ~Contains(d, S_sep)
  /\ ~StartsWith(d, S_www)
  /\ d # <<>>

\* C6: the output of normalize_domain satisfies the Domain invariant: lower-case,
\* no surrounding whitespace, no scheme or protocol separator, no leading "www.",
\* non-empty
C6_DomainInvariant == Normalized => DomainInvariant(result.once)

(***************************************************************************)
(* CDX records: a Python list of fields (JSON mode) or a Python str        *)
(***************************************************************************)

ListRec(fields) == [tag |-> "list", url |-> <<>>, fields |-> fields]
StrRec(s) == [tag |-> "str", url |-> s, fields |-> <<>>]

\* the value a function returns, or the exception it raises
Returned(v) == [ok |-> TRUE, val |-> v, exc |-> "none"]
Raised(e) == [ok |-> FALSE, val |-> <<>>, exc |-> e]

S_a_js == <<"a", ".", "j", "s">>
S_a_JS == <<"a", ".", "J", "S">>
S_ajs == <<"a", "j", "s">>
S_b_p == <<"b", ".", "p">>
S_ts == <<"2", "0">>
S_200 == <<"2", "0", "0">>
S_404 == <<"4", "0", "4">>
S_dash == <<"-">>
\* a URL with a lone surrogate, which json.loads reads from the escape \ud800
\* and UTF-8 cannot encode
S_surrogate_js == <<"U+D800", ".", "j", "s">>

(***************************************************************************)
(* WaybackCDXQuery.filter_by_extensions                                    *)
(***************************************************************************)

\* line 263 without the lower()
NormalizeExtKeepCase(ext) == LStripDots(ext)

\* line 263: ext.lower().lstrip('.')
NormalizeExt(ext) == LStripDots(Lower(ext))

\* lines 271-274 and 277: the record whose url.lower() cannot be taken.  In text
\* mode the record itself is the url, and a list has no lower(); otherwise
\* record[0] of an empty list is an IndexError
UrlRaises(record, text_mode) ==
  record.tag = "list" /\ (text_mode \/ record.fields = <<>>)

UrlOf(record) == IF record.tag = "list" THEN record.fields[1] ELSE record.url

\* line 278: any(url_lower.endswith(f'.{ext}') for ext in extensions)
ExtMatches(url, exts) ==
  \E i \in 1..Len(exts) : EndsWith(Lower(url), <<".">> \o exts[i])

\* the exception the loop stops with: 'list' object has no attribute 'lower' in
\* text mode, list index out of range otherwise
UrlError(text_mode) == IF text_mode THEN "AttributeError" ELSE "IndexError"

filter_by_extensions(records, extensions, text_mode) ==
  IF extensions = <<>> THEN Returned(records)
  ELSE LET exts == [i \in 1..Len(extensions) |-> NormalizeExt(extensions[i])]
           keep(record) == ExtMatches(UrlOf(record), exts)
       IN  IF \E k \in 1..Len(records) : UrlRaises(records[k], text_mode)
           THEN Raised(UrlError(text_mode))
           ELSE Returned(SelectSeq(records, keep))

\* ---- inputs of the extension filter
MaxData == 2
MaxExts == 2

ExtRecords ==
  {StrRec(S_a_js), StrRec(S_a_JS), StrRec(S_ajs),
   ListRec(<<S_a_js, S_ts, S_200>>), ListRec(<<S_b_p, S_ts, S_404>>), ListRec(<<>>)}
ExtStrings ==
  {<<"j", "s">>, <<"J", "S">>, <<".", "j", "s">>, <<".", ".", "j", "s">>, <<"p">>}

InitExt ==
  /\ call \in {[fn |-> "filter_by_extensions", data |-> d, extensions |-> e,
                text_mode |-> t] :
                  d \in SeqsUpTo(ExtRecords, MaxData),
                  e \in SeqsUpTo(ExtStrings, MaxExts), t \in BOOLEAN}
  /\ result = NoResult
  /\ NoRun

ApplyExt ==
  /\ call.fn = "filter_by_extensions"
  /\ result = NoResult
  /\ result' = [fn |-> "filter_by_extensions",
                out |-> filter_by_extensions(call.data, call.extensions, call.text_mode)]
  /\ UNCHANGED <<call, runVars>>

NextExt == ApplyExt

SpecExt == InitExt /\ [][NextExt]_vars

\* the URL of a record as the contract names it
ContractUrl(record) == IF record.tag = "list" THEN Head(record.fields) ELSE record.url

\* e with exactly one leading dot removed, when it has one
WithoutOneDot(e) == IF e # <<>> /\ e[1] = "." THEN Tail(e) ELSE e

\* e with all its leading dots removed, stated without lstrip
WithoutLeadingDots(e) ==
  LET k == CHOOSE n \in 0..Len(e) :
             /\ \A i \in 1..n : e[i] = "."
             /\ n < Len(e) => e[n + 1] # "."
  IN  SubSeq(e, k + 1, Len(e))

ExtReturned == result.fn = "filter_by_extensions" /\ result.out.ok

Digits == <<"0", "1", "2", "3", "4", "5", "6", "7", "8", "9">>
IsDigit(c) == \E d \in 1..10 : Digits[d] = c
DigitVal(c) == (CHOOSE d \in 1..10 : Digits[d] = c) - 1

RECURSIVE DecimalVal(_)
DecimalVal(s) ==
  IF s = <<>> THEN 0 ELSE 10 * DecimalVal(SubSeq(s, 1, Len(s) - 1)) + DigitVal(s[Len(s)])

\* int(str): surrounding whitespace, an optional sign, then decimal digits;
\* anything else is a ValueError
ParseInt(s) ==
  LET t == Strip(s)
      signed == t # <<>> /\ t[1] \in {"-", "+"}
      digits == IF signed THEN Tail(t) ELSE t
  IN  IF digits # <<>> /\ \A i \in 1..Len(digits) : IsDigit(digits[i])
      THEN Returned(IF signed /\ t[1] = "-" THEN 0 - DecimalVal(digits)
                    ELSE DecimalVal(digits))
      ELSE Raised("ValueError")

\* line 321: isinstance(record, list) and len(record) >= 3
HasStatus(record) == record.tag = "list" /\ Len(record.fields) >= 3

\* lines 321-329: what the loop does with one record that does not raise
StatusKeeps(record, status_codes) ==
  IF HasStatus(record) THEN ParseInt(record.fields[3]).val \in status_codes
  ELSE record.tag = "str"

filter_by_status_codes(records, status_codes) ==
  IF status_codes = {} THEN Returned(records)
  ELSE LET keep(record) == StatusKeeps(record, status_codes)
       IN  IF \E k \in 1..Len(records) :
                HasStatus(records[k]) /\ ~ParseInt(records[k].fields[3]).ok
           THEN Raised("ValueError")
           ELSE Returned(SelectSeq(records, keep))

\* ---- inputs of the status filter
StatusRecords ==
  {StrRec(S_a_js),
   ListRec(<<S_a_js, S_ts, S_200>>), ListRec(<<S_b_p, S_ts, S_404>>),
   ListRec(<<S_a_js, S_ts, <<"0">> \o S_200>>), ListRec(<<S_a_js, S_ts, S_dash>>),
   ListRec(<<S_a_js, S_ts>>)}
StatusCodes == {200, 404}

InitStatus ==
  /\ call \in {[fn |-> "filter_by_status_codes", data |-> d, status_codes |-> c] :
                  d \in SeqsUpTo(StatusRecords, MaxData), c \in SUBSET StatusCodes}
  /\ result = NoResult
  /\ NoRun

ApplyStatus ==
  /\ call.fn = "filter_by_status_codes"
  /\ result = NoResult
  /\ result' = [fn |-> "filter_by_status_codes",
                out |-> filter_by_status_codes(call.data, call.status_codes)]
  /\ UNCHANGED <<call, runVars>>

NextStatus == ApplyStatus

SpecStatus == InitStatus /\ [][NextStatus]_vars

StatusReturned == result.fn = "filter_by_status_codes" /\ result.out.ok

\* C4: only a structured record with at least three elements whose status is not
\* in the target set is removed; such a record is kept iff its status is in the
\* set; every plain-string record passes; an empty set returns the input unchanged
C4_StatusContract ==
  StatusReturned =>
    LET removable(record) ==
          /\ record.tag = "list"
          /\ Len(record.fields) >= 3
          /\ ParseInt(record.fields[3]).val \notin call.status_codes
        kept(record) == ~removable(record)
    IN  result.out.val =
          IF call.status_codes = {} THEN call.data ELSE SelectSeq(call.data, kept)

(***************************************************************************)
(* WaybackCDXQuery.fetch_cdx_data: the parse of a successful response      *)
(***************************************************************************)

S_original == <<"o", "r", "i", "g", "i", "n", "a", "l">>
S_timestamp == <<"t", "i", "m", "e", "s", "t", "a", "m", "p">>
S_statuscode == <<"s", "t", "a", "t", "u", "s", "c", "o", "d", "e">>

\* line 220: ['original', 'timestamp', 'statuscode']
HeaderRow == ListRec(<<S_original, S_timestamp, S_statuscode>>)

\* str.split('\n')
RECURSIVE SplitLines(_)
SplitLines(s) ==
  IF \E i \in 1..Len(s) : s[i] = "\n"
  THEN LET i == CHOOSE k \in 1..Len(s) : s[k] = "\n" /\ \A j \in 1..(k - 1) : s[j] # "\n"
       IN  <<SubSeq(s, 1, i - 1)>> \o SplitLines(SubSeq(s, i + 1, Len(s)))
  ELSE <<s>>

\* the response of a successful GET.  ctype is "json" when the content-type header
\* contains application/json; a JSON body either fails to decode (valid = FALSE)
\* or decodes to the list items; any other body is read as text
JsonResponse(items) == [ctype |-> "json", valid |-> TRUE, items |-> items, text |-> <<>>]
BadJsonResponse == [ctype |-> "json", valid |-> FALSE, items |-> <<>>, text |-> <<>>]
TextResponse(text) == [ctype |-> "text", valid |-> TRUE, items |-> <<>>, text |-> text]

\* the header-row removal that keeps every header row out, wherever it stands
StripEveryHeader(records) == SelectSeq(records, LAMBDA r : r # HeaderRow)

\* lines 218-221: remove the header row if present
StripHeader(records) ==
  IF Len(records) > 0 /\ records[1] = HeaderRow THEN Tail(records) ELSE records

\* lines 224-225: the non-empty stripped lines of the stripped text
TextLines(text) ==
  LET lines == SplitLines(Strip(text))
      stripped == [i \in 1..Len(lines) |-> StrRec(Strip(lines[i]))]
  IN  SelectSeq(stripped, LAMBDA r : r.url # <<>>)

\* lines 215-225
ParseResponse(resp) ==
  IF resp.ctype = "json"
  THEN IF resp.valid THEN Returned(StripHeader(resp.items))
       ELSE Raised("JSONDecodeError")
  ELSE Returned(TextLines(resp.text))

\* ---- inputs of the parse
JsonItems ==
  {HeaderRow, ListRec(<<S_a_js, S_ts, S_200>>), ListRec(<<S_original, S_timestamp>>),
   StrRec(S_original)}
TextBodies ==
  {<<>>, S_a_js, S_a_js \o <<"\n">> \o S_b_p \o <<"\n">>,
   <<" ">> \o S_a_js \o <<" ", "\n", "\n", " ", "\n">> \o S_b_p}
Responses ==
  {JsonResponse(items) : items \in SeqsUpTo(JsonItems, MaxData + 1)}
    \cup {BadJsonResponse} \cup {TextResponse(t) : t \in TextBodies}

InitParse ==
  /\ call \in {[fn |-> "parse", response |-> r] : r \in Responses}
  /\ result = NoResult
  /\ NoRun

ApplyParse ==
  /\ call.fn = "parse"
  /\ result = NoResult
  /\ result' = [fn |-> "parse", out |-> ParseResponse(call.response)]
  /\ UNCHANGED <<call, runVars>>

NextParse == ApplyParse

SpecParse == InitParse /\ [][NextParse]_vars

JsonListParsed ==
  result.fn = "parse" /\ call.response.ctype = "json" /\ call.response.valid

\* C7: for a JSON list body the result is the list without its first element iff
\* that element is the header triple, and the list itself otherwise; the other
\* elements keep their order, a later header row included
C7_OneHeaderRowRemoved ==
  JsonListParsed =>
    LET body == call.response.items
        out == result.out.val
        k == Len(body) - Len(out)
    IN  /\ result.out.ok
        /\ k \in {0, 1}
        /\ k = 1 <=> (body # <<>> /\ body[1] = HeaderRow)
        /\ \A i \in 1..Len(out) : out[i] = body[i + k]

\* a body of two header rows, of which the second is kept
C7_Witness ==
  /\ JsonListParsed
  /\ Len(call.response.items) >= 2
  /\ call.response.items[1] = HeaderRow
  /\ call.response.items[2] = HeaderRow
  /\ result.out.val[1] = HeaderRow

(***************************************************************************)
(* The run of main                                                         *)
(***************************************************************************)

\* Retry(total=3, ...): line 102
RetryTotal == 3

\* urllib3's Retry, mounted on the session by _create_session: each failed
\* attempt that may be retried (a status of the forcelist, a connection error, a
\* timeout) takes one from total, and the budget is exhausted once it is below 0
RetryExhaustedLate(total) == total < -1

RetryExhausted(total) == total < 0

\* ---- the command lines and the server's answers of the runs
S_WWW_a == S_https \o S_WWW \o <<"A", ".", "a", "/">>
RunDomains == {<<"a", ".", "a">>, S_WWW_a}
RunExts == {<<>>, <<<<".", "J", "S">>>>}
RunStatuses == {{}, {200}}

\* kind: "none" for a bare command line, "invalid" for one argparse rejects,
\* "parsed" otherwise.  url = <<>> stands for a missing -u
ParsedArgs(u, v, t, e, st, o) ==
  [kind |-> "parsed", url |-> u, verbose |-> v, text |-> t, ext |-> e,
   status |-> st, output |-> o]
CommandLines ==
  {ParsedArgs(<<>>, FALSE, FALSE, <<>>, {}, FALSE),
   [ParsedArgs(<<>>, FALSE, FALSE, <<>>, {}, FALSE) EXCEPT !.kind = "none"],
   [ParsedArgs(<<>>, FALSE, FALSE, <<>>, {}, FALSE) EXCEPT !.kind = "invalid"],
   ParsedArgs(<<>>, TRUE, FALSE, <<>>, {}, FALSE)}
    \cup {ParsedArgs(u, v, t, e, st, o) :
            u \in RunDomains, v \in BOOLEAN, t \in BOOLEAN, e \in RunExts,
            st \in RunStatuses, o \in BOOLEAN}

RunResponses ==
  {JsonResponse(<<HeaderRow, ListRec(<<S_a_js, S_ts, S_200>>),
                  ListRec(<<S_b_p, S_ts, S_404>>)>>),
   JsonResponse(<<ListRec(<<S_a_JS, S_ts, S_dash>>)>>),
   JsonResponse(<<ListRec(<<S_surrogate_js, S_ts, S_200>>)>>),
   JsonResponse(<<>>),
   BadJsonResponse,
   TextResponse(S_a_js \o <<"\n">> \o S_b_p \o <<"\n">>)}

\* response.json() raises requests.exceptions.JSONDecodeError, a RequestException,
\* with requests 2.27 and later, and a plain json.JSONDecodeError before; the
\* repository pins no version
JsonErrorClasses == {"RequestException", "JSONDecodeError"}

Init ==
  /\ call = [fn |-> "main"]
  /\ result = NoResult
  /\ \E a \in CommandLines, w \in BOOLEAN :
       /\ (a.kind = "parsed" /\ a.output) \/ w
       /\ RunFields("start", a, w)

Anim == ~args.verbose

Emit(tags) == stdout' = stdout \o tags

Exit(code) == pc' = "done" /\ exitStatus' = code

\* LoadingSpinner(message).start(): lines 39-50
StartSpinner(message) ==
  spinners' = Append(spinners, [message |-> message, running |-> TRUE,
                                tpc |-> "check", cleared |-> FALSE])

\* the call of spinner.stop() by a caller that goes on at r
CallStop(r) == pc' = "stop_flag" /\ ret' = r

\* spinner.stop() when there is a spinner, else straight on
StopIfSpinner(r) == IF Anim THEN CallStop(r) ELSE pc' = r /\ UNCHANGED ret

\* the positions inside the try block of main (lines 506-582)
StopPcs == {"stop_flag", "stop_join", "stop_clear"}
BeforeTryPcs == {"start", "check_argv", "startup_start", "startup_sleep", "startup_ready"}
InTry ==
  /\ pc \notin BeforeTryPcs \cup {"except", "done", "idle"}
  /\ pc \in StopPcs => ret \notin BeforeTryPcs

\* ---- lines 462-504: the command line and the startup animation

\* line 462: parser.parse_args() ends the process with status 2 on a usage error
ParseArgs ==
  /\ pc = "start"
  /\ IF args.kind = "invalid" THEN Exit(2) ELSE pc' = "check_argv" /\ UNCHANGED exitStatus
  /\ UNCHANGED <<call, result, ret, args, fileWritable, normalized_domain, cdx_url,
                 retriesLeft, attempts, response, data, output, exc, spinners, line,
                 stdout, fileOpens, fileState, interrupts>>

\* lines 465-483
NoArguments ==
  /\ pc = "check_argv"
  /\ args.kind = "none"
  /\ Emit(<<"help">>)
  /\ Exit(0)
  /\ UNCHANGED <<call, result, ret, args, fileWritable, normalized_domain, cdx_url,
                 retriesLeft, attempts, response, data, output, exc, spinners, line,
                 fileOpens, fileState, interrupts>>

\* lines 486-490
MissingDomain ==
  /\ pc = "check_argv"
  /\ args.kind = "parsed"
  /\ args.url = <<>>
  /\ Emit(<<"domain_required">>)
  /\ Exit(1)
  /\ UNCHANGED <<call, result, ret, args, fileWritable, normalized_domain, cdx_url,
                 retriesLeft, attempts, response, data, output, exc, spinners, line,
                 fileOpens, fileState, interrupts>>

\* lines 493-498
InitTool ==
  /\ pc = "check_argv"
  /\ args.kind = "parsed"
  /\ args.url # <<>>
  /\ IF Anim THEN Emit(<<"banner">>) /\ pc' = "startup_start"
     ELSE pc' = "normalize" /\ UNCHANGED stdout
  /\ UNCHANGED <<call, result, ret, args, fileWritable, normalized_domain, cdx_url,
                 retriesLeft, attempts, response, data, output, exc, spinners, line,
                 fileOpens, fileState, exitStatus, interrupts>>

\* lines 499-500
StartupStart ==
  /\ pc = "startup_start"
  /\ StartSpinner("Initializing")
  /\ pc' = "startup_sleep"
  /\ UNCHANGED <<call, result, ret, args, fileWritable, normalized_domain, cdx_url,
                 retriesLeft, attempts, response, data, output, exc, line, stdout,
                 fileOpens, fileState, exitStatus, interrupts>>

\* lines 501-502
StartupSleep ==
  /\ pc = "startup_sleep"
  /\ CallStop("startup_ready")
  /\ UNCHANGED <<call, result, args, fileWritable, normalized_domain, cdx_url,
                 retriesLeft, attempts, response, data, output, exc, spinners, line,
                 stdout, fileOpens, fileState, exitStatus, interrupts>>

\* lines 503-504
StartupReady ==
  /\ pc = "startup_ready"
  /\ Emit(<<"ready">>)
  /\ pc' = "normalize"
  /\ UNCHANGED <<call, result, ret, args, fileWritable, normalized_domain, cdx_url,
                 retriesLeft, attempts, response, data, output, exc, spinners, line,
                 fileOpens, fileState, exitStatus, interrupts>>

\* ---- lines 506-516: the domain and the query URL

\* lines 508-513
Normalize ==
  /\ pc = "normalize"
  /\ normalized_domain' = normalize_domain(args.url)
  /\ Emit(<<"domain">>)
  /\ pc' = "build_url"
  /\ UNCHANGED <<call, result, ret, args, fileWritable, cdx_url, retriesLeft,
                 attempts, response, data, output, exc, spinners, line, fileOpens, fileState,
                 exitStatus, interrupts>>

\* lines 134-169
build_cdx_url(d, text_mode) ==
  [url |-> <<"*", ".">> \o d \o <<"/", "*">>,
   output |-> IF text_mode THEN "text" ELSE "json",
   fl |-> IF text_mode THEN "original" ELSE "original,timestamp,statuscode"]

\* line 516
BuildUrl ==
  /\ pc = "build_url"
  /\ cdx_url' = build_cdx_url(normalized_domain, args.text)
  /\ IF args.verbose THEN Emit(<<"v_url">>) ELSE UNCHANGED stdout
  /\ pc' = "fetch_enter"
  /\ UNCHANGED <<call, result, ret, args, fileWritable, normalized_domain,
                 retriesLeft, attempts, response, data, output, exc, spinners, line,
                 fileOpens, fileState, exitStatus, interrupts>>

\* ---- lines 171-238: fetch_cdx_data

\* lines 519-520, 185-197
FetchEnter ==
  /\ pc = "fetch_enter"
  /\ IF Anim THEN StartSpinner("Fetching data from Wayback Machine") /\ UNCHANGED stdout
     ELSE Emit(<<"v_fetching", "v_request">>) /\ UNCHANGED spinners
  /\ retriesLeft' = RetryTotal
  /\ pc' = "fetch_get"
  /\ UNCHANGED <<call, result, ret, args, fileWritable, normalized_domain, cdx_url,
                 attempts, response, data, output, exc, line, fileOpens, fileState, exitStatus,
                 interrupts>>

\* lines 199-204: an attempt answered with a success status
GetOk ==
  /\ pc = "fetch_get"
  /\ attempts' = attempts + 1
  /\ response' \in RunResponses
  /\ StopIfSpinner("fetch_process")
  /\ UNCHANGED <<call, result, args, fileWritable, normalized_domain, cdx_url,
                 retriesLeft, data, output, exc, spinners, line, stdout, fileOpens, fileState,
                 exitStatus, interrupts>>

\* lines 199-200: an attempt answered with an error status that is not of the
\* forcelist (a 404, say): raise_for_status raises HTTPError
GetHttpError ==
  /\ pc = "fetch_get"
  /\ attempts' = attempts + 1
  /\ exc' = [type |-> "RequestException", origin |-> "raise_for_status"]
  /\ pc' = "fetch_except"
  /\ UNCHANGED <<call, result, ret, args, fileWritable, normalized_domain, cdx_url,
                 retriesLeft, response, data, output, spinners, line, stdout,
                 fileOpens, fileState, exitStatus, interrupts>>

\* line 199: an attempt that fails in a way the Retry covers, with budget left:
\* the adapter backs off and sends the request again
GetRetry ==
  /\ pc = "fetch_get"
  /\ attempts' = attempts + 1
  /\ retriesLeft' = retriesLeft - 1
  /\ ~RetryExhausted(retriesLeft - 1)
  /\ UNCHANGED <<call, result, pc, ret, args, fileWritable, normalized_domain,
                 cdx_url, response, data, output, exc, spinners, line, stdout,
                 fileOpens, fileState, exitStatus, interrupts>>

\* line 199: the same with the budget exhausted: RetryError or ConnectionError
GetExhausted ==
  /\ pc = "fetch_get"
  /\ attempts' = attempts + 1
  /\ retriesLeft' = retriesLeft - 1
  /\ RetryExhausted(retriesLeft - 1)
  /\ exc' = [type |-> "RequestException", origin |-> "get"]
  /\ pc' = "fetch_except"
  /\ UNCHANGED <<call, result, ret, args, fileWritable, normalized_domain, cdx_url,
                 response, data, output, spinners, line, stdout, fileOpens, fileState,
                 exitStatus, interrupts>>

\* lines 206-213
FetchProcess ==
  /\ pc = "fetch_process"
  /\ IF Anim THEN StartSpinner("Processing results") /\ UNCHANGED stdout
     ELSE Emit(<<"v_status", "v_size">>) /\ UNCHANGED spinners
  /\ pc' = "fetch_parse"
  /\ UNCHANGED <<call, result, ret, args, fileWritable, normalized_domain, cdx_url,
                 retriesLeft, attempts, response, data, output, exc, line, fileOpens, fileState,
                 exitStatus, interrupts>>

\* lines 215-229: the body parses
FetchParseOk ==
  /\ pc = "fetch_parse"
  /\ ParseResponse(response).ok
  /\ data' = ParseResponse(response).val
  /\ StopIfSpinner("fetch_return")
  /\ UNCHANGED <<call, result, args, fileWritable, normalized_domain, cdx_url,
                 retriesLeft, attempts, response, output, exc, spinners, line,
                 stdout, fileOpens, fileState, exitStatus, interrupts>>

\* line 217: response.json() raises; the except clause of line 233 catches it
\* only when it is a RequestException
FetchParseError ==
  /\ pc = "fetch_parse"
  /\ ~ParseResponse(response).ok
  /\ \E cls \in JsonErrorClasses :
       /\ exc' = [type |-> cls, origin |-> "json"]
       /\ pc' = IF cls = "RequestException" THEN "fetch_except" ELSE "except"
  /\ UNCHANGED <<call, result, ret, args, fileWritable, normalized_domain, cdx_url,
                 retriesLeft, attempts, response, data, output, spinners, line,
                 stdout, fileOpens, fileState, exitStatus, interrupts>>

\* lines 233-235
FetchExcept ==
  /\ pc = "fetch_except"
  /\ StopIfSpinner("fetch_reraise")
  /\ UNCHANGED <<call, result, args, fileWritable, normalized_domain, cdx_url,
                 retriesLeft, attempts, response, data, output, exc, spinners, line,
                 stdout, fileOpens, fileState, exitStatus, interrupts>>

\* lines 236-238
FetchReraise ==
  /\ pc = "fetch_reraise"
  /\ IF args.verbose THEN Emit(<<"v_request_failed">>) ELSE UNCHANGED stdout
  /\ pc' = "except"
  /\ UNCHANGED <<call, result, ret, args, fileWritable, normalized_domain, cdx_url,
                 retriesLeft, attempts, response, data, output, exc, spinners, line,
                 fileOpens, fileState, exitStatus, interrupts>>

\* lines 231, 524-527
FetchReturn ==
  /\ pc = "fetch_return"
  /\ Emit(<<"retrieved">>)
  /\ pc' = "ext_check"
  /\ UNCHANGED <<call, result, ret, args, fileWritable, normalized_domain, cdx_url,
                 retriesLeft, attempts, response, data, output, exc, spinners, line,
                 fileOpens, fileState, exitStatus, interrupts>>

\* ---- lines 529-550: the filters

\* line 530, no --ext
ExtSkip ==
  /\ pc = "ext_check"
  /\ args.ext = <<>>
  /\ pc' = "status_check"
  /\ UNCHANGED <<call, result, ret, args, fileWritable, normalized_domain, cdx_url,
                 retriesLeft, attempts, response, data, output, exc, spinners, line,
                 stdout, fileOpens, fileState, exitStatus, interrupts>>

\* lines 530-533, 253-260
ExtEnter ==
  /\ pc = "ext_check"
  /\ args.ext # <<>>
  /\ IF Anim THEN StartSpinner("Filtering by extensions") /\ UNCHANGED stdout
     ELSE Emit(<<"v_filtering_ext">>) /\ UNCHANGED spinners
  /\ pc' = "ext_work"
  /\ UNCHANGED <<call, result, ret, args, fileWritable, normalized_domain, cdx_url,
                 retriesLeft, attempts, response, data, output, exc, line, fileOpens, fileState,
                 exitStatus, interrupts>>

\* lines 262-290: the loop, then spinner.stop() on the way out, by return (data
\* takes the result at line 533) or by the except clause
ExtWork ==
  /\ pc = "ext_work"
  /\ LET r == filter_by_extensions(data, args.ext, args.text)
     IN  IF r.ok
         THEN data' = r.val /\ StopIfSpinner("ext_done") /\ UNCHANGED exc
         ELSE /\ exc' = [type |-> r.exc, origin |-> "filter_by_extensions"]
              /\ StopIfSpinner("except")
              /\ UNCHANGED data
  /\ UNCHANGED <<call, result, args, fileWritable, normalized_domain, cdx_url,
                 retriesLeft, attempts, response, output, spinners, line, stdout,
                 fileOpens, fileState, exitStatus, interrupts>>

\* lines 534-537
ExtDone ==
  /\ pc = "ext_done"
  /\ Emit(<<"filtered_ext">>)
  /\ pc' = "status_check"
  /\ UNCHANGED <<call, result, ret, args, fileWritable, normalized_domain, cdx_url,
                 retriesLeft, attempts, response, data, output, exc, spinners, line,
                 fileOpens, fileState, exitStatus, interrupts>>

\* line 540, no --status
StatusSkip ==
  /\ pc = "status_check"
  /\ args.status = {}
  /\ pc' = "format_enter"
  /\ UNCHANGED <<call, result, ret, args, fileWritable, normalized_domain, cdx_url,
                 retriesLeft, attempts, response, data, output, exc, spinners, line,
                 stdout, fileOpens, fileState, exitStatus, interrupts>>

\* lines 541-542
StatusWarn ==
  /\ pc = "status_check"
  /\ args.status # {}
  /\ args.text
  /\ Emit(<<"status_warning">>)
  /\ pc' = "format_enter"
  /\ UNCHANGED <<call, result, ret, args, fileWritable, normalized_domain, cdx_url,
                 retriesLeft, attempts, response, data, output, exc, spinners, line,
                 fileOpens, fileState, exitStatus, interrupts>>

\* lines 543-546, 304-311
StatusEnter ==
  /\ pc = "status_check"
  /\ args.status # {}
  /\ ~args.text
  /\ IF Anim THEN StartSpinner("Filtering by status codes") /\ UNCHANGED stdout
     ELSE Emit(<<"v_filtering_status">>) /\ UNCHANGED spinners
  /\ pc' = "status_work"
  /\ UNCHANGED <<call, result, ret, args, fileWritable, normalized_domain, cdx_url,
                 retriesLeft, attempts, response, data, output, exc, line, fileOpens, fileState,
                 exitStatus, interrupts>>

\* lines 313-340
StatusWork ==
  /\ pc = "status_work"
  /\ LET r == filter_by_status_codes(data, args.status)
     IN  IF r.ok
         THEN data' = r.val /\ StopIfSpinner("status_done") /\ UNCHANGED exc
         ELSE /\ exc' = [type |-> r.exc, origin |-> "filter_by_status_codes"]
              /\ StopIfSpinner("except")
              /\ UNCHANGED data
  /\ UNCHANGED <<call, result, args, fileWritable, normalized_domain, cdx_url,
                 retriesLeft, attempts, response, output, spinners, line, stdout,
                 fileOpens, fileState, exitStatus, interrupts>>

\* lines 547-550
StatusDone ==
  /\ pc = "status_done"
  /\ Emit(<<"filtered_status">>)
  /\ pc' = "format_enter"
  /\ UNCHANGED <<call, result, ret, args, fileWritable, normalized_domain, cdx_url,
                 retriesLeft, attempts, response, data, output, exc, spinners, line,
                 fileOpens, fileState, exitStatus, interrupts>>

\* ---- lines 552-582: the formatter and the output sink

\* lines 379-392: "\n".join(data) is a TypeError when an item is not a str
format_text_list(records) ==
  IF records = <<>> THEN Returned([fmt |-> "No results.", rows |-> <<>>])
  ELSE IF \E i \in 1..Len(records) : records[i].tag # "str" THEN Raised("TypeError")
  ELSE Returned([fmt |-> "list", rows |-> records])

\* lines 342-377: a str record is iterated character by character, a list of any
\* length is zipped with the three widths; neither raises
format_json_table(records) ==
  IF records = <<>> THEN Returned([fmt |-> "No results.", rows |-> <<>>])
  ELSE Returned([fmt |-> "table", rows |-> records])

\* lines 553-555
FormatEnter ==
  /\ pc = "format_enter"
  /\ IF Anim THEN StartSpinner("Formatting results") /\ pc' = "format_sleep"
     ELSE pc' = "format" /\ UNCHANGED spinners
  /\ UNCHANGED <<call, result, ret, args, fileWritable, normalized_domain, cdx_url,
                 retriesLeft, attempts, response, data, output, exc, line, stdout,
                 fileOpens, fileState, exitStatus, interrupts>>

\* lines 556-557
FormatSleep ==
  /\ pc = "format_sleep"
  /\ CallStop("format")
  /\ UNCHANGED <<call, result, args, fileWritable, normalized_domain, cdx_url,
                 retriesLeft, attempts, response, data, output, exc, spinners, line,
                 stdout, fileOpens, fileState, exitStatus, interrupts>>

\* lines 559-562
Format ==
  /\ pc = "format"
  /\ LET r == IF args.text THEN format_text_list(data) ELSE format_json_table(data)
     IN  IF r.ok
         THEN output' = r.val /\ pc' = "output_enter" /\ UNCHANGED exc
         ELSE /\ exc' = [type |-> r.exc, origin |-> "format"]
              /\ pc' = "except"
              /\ UNCHANGED output
  /\ UNCHANGED <<call, result, ret, args, fileWritable, normalized_domain, cdx_url,
                 retriesLeft, attempts, response, data, spinners, line, stdout,
                 fileOpens, fileState, exitStatus, interrupts>>

\* str.encode('utf-8') of the formatted result: a lone surrogate in one of its
\* fields makes it raise UnicodeEncodeError
Encodable(out) ==
  \A i \in 1..Len(out.rows) :
    /\ \A k \in 1..Len(out.rows[i].url) : out.rows[i].url[k] # "U+D800"
    /\ \A j \in 1..Len(out.rows[i].fields) :
         \A k \in 1..Len(out.rows[i].fields[j]) : out.rows[i].fields[j][k] # "U+D800"

\* lines 573-582
Show ==
  /\ pc = "output_enter"
  /\ ~args.output
  /\ Encodable(output)
  /\ IF Anim THEN Emit(<<"results_header", "results", "completed">>)
     ELSE Emit(<<"results">>)
  /\ Exit(0)
  /\ UNCHANGED <<call, result, ret, args, fileWritable, normalized_domain, cdx_url,
                 retriesLeft, attempts, response, data, output, exc, spinners, line,
                 fileOpens, fileState, interrupts>>

\* lines 573-578: print(output) raises UnicodeEncodeError, after the header
\* lines when there are any
ShowEncodeError ==
  /\ pc = "output_enter"
  /\ ~args.output
  /\ ~Encodable(output)
  /\ IF Anim THEN Emit(<<"results_header">>) ELSE UNCHANGED stdout
  /\ exc' = [type |-> "UnicodeEncodeError", origin |-> "print"]
  /\ pc' = "except"
  /\ UNCHANGED <<call, result, ret, args, fileWritable, normalized_domain, cdx_url,
                 retriesLeft, attempts, response, data, output, spinners, line,
                 fileOpens, fileState, exitStatus, interrupts>>

\* lines 565-568
SaveEnter ==
  /\ pc = "output_enter"
  /\ args.output
  /\ IF Anim THEN StartSpinner("Saving to file") /\ pc' = "save_sleep"
     ELSE pc' = "save" /\ UNCHANGED spinners
  /\ UNCHANGED <<call, result, ret, args, fileWritable, normalized_domain, cdx_url,
                 retriesLeft, attempts, response, data, output, exc, line, stdout,
                 fileOpens, fileState, exitStatus, interrupts>>

\* lines 569-570
SaveSleep ==
  /\ pc = "save_sleep"
  /\ CallStop("save")
  /\ UNCHANGED <<call, result, args, fileWritable, normalized_domain, cdx_url,
                 retriesLeft, attempts, response, data, output, exc, spinners, line,
                 stdout, fileOpens, fileState, exitStatus, interrupts>>

\* lines 571, 402-406: save_to_file, the file opens and is written
SaveOk ==
  /\ pc = "save"
  /\ fileWritable
  /\ Encodable(output)
  /\ fileOpens' = fileOpens + 1
  /\ fileState' = "written"
  /\ IF args.verbose THEN Emit(<<"v_saved">>) ELSE UNCHANGED stdout
  /\ pc' = "saved"
  /\ UNCHANGED <<call, result, ret, args, fileWritable, normalized_domain, cdx_url,
                 retriesLeft, attempts, response, data, output, exc, spinners, line,
                 exitStatus, interrupts>>

\* lines 571, 402-404: open(filename, 'w') truncates the file, f.write raises
\* UnicodeEncodeError, a ValueError: the except IOError of line 407 lets it
\* pass, the with statement closes the file, and the error reaches main
SaveEncodeError ==
  /\ pc = "save"
  /\ fileWritable
  /\ ~Encodable(output)
  /\ fileOpens' = fileOpens + 1
  /\ fileState' = "truncated"
  /\ exc' = [type |-> "UnicodeEncodeError", origin |-> "save_to_file"]
  /\ pc' = "except"
  /\ UNCHANGED <<call, result, ret, args, fileWritable, normalized_domain, cdx_url,
                 retriesLeft, attempts, response, data, output, spinners, line,
                 stdout, exitStatus, interrupts>>

\* lines 571, 402-409: save_to_file, open raises IOError: sys.exit(1), a
\* SystemExit that no except clause of main catches
SaveFail ==
  /\ pc = "save"
  /\ ~fileWritable
  /\ fileOpens' = fileOpens + 1
  /\ UNCHANGED fileState
  /\ Emit(<<"error_saving">>)
  /\ exc' = [type |-> "SystemExit", origin |-> "save_to_file"]
  /\ Exit(1)
  /\ UNCHANGED <<call, result, ret, args, fileWritable, normalized_domain, cdx_url,
                 retriesLeft, attempts, response, data, output, spinners, line,
                 interrupts>>

\* line 572, and main returns
PrintSaved ==
  /\ pc = "saved"
  /\ Emit(<<"results_saved">>)
  /\ Exit(0)
  /\ UNCHANGED <<call, result, ret, args, fileWritable, normalized_domain, cdx_url,
                 retriesLeft, attempts, response, data, output, exc, spinners, line,
                 fileOpens, fileState, interrupts>>

\* ---- lines 584-598: the except clauses of main

\* lines 584-586 with sys.exit(0) in the place of sys.exit(1)
HandleNetworkExitZero ==
  /\ pc = "except"
  /\ exc.type = "RequestException"
  /\ Emit(<<"network_error">>)
  /\ Exit(0)
  /\ UNCHANGED <<call, result, ret, args, fileWritable, normalized_domain, cdx_url,
                 retriesLeft, attempts, response, data, output, exc, spinners, line,
                 fileOpens, fileState, interrupts>>

\* lines 584-586
HandleNetwork ==
  /\ pc = "except"
  /\ exc.type = "RequestException"
  /\ Emit(<<"network_error">>)
  /\ Exit(1)
  /\ UNCHANGED <<call, result, ret, args, fileWritable, normalized_domain, cdx_url,
                 retriesLeft, attempts, response, data, output, exc, spinners, line,
                 fileOpens, fileState, interrupts>>

\* lines 587-589
HandleJson ==
  /\ pc = "except"
  /\ exc.type = "JSONDecodeError"
  /\ Emit(<<"json_error">>)
  /\ Exit(1)
  /\ UNCHANGED <<call, result, ret, args, fileWritable, normalized_domain, cdx_url,
                 retriesLeft, attempts, response, data, output, exc, spinners, line,
                 fileOpens, fileState, interrupts>>

\* lines 590-592
HandleInterrupt ==
  /\ pc = "except"
  /\ exc.type = "KeyboardInterrupt"
  /\ Emit(<<"cancelled">>)
  /\ Exit(0)
  /\ UNCHANGED <<call, result, ret, args, fileWritable, normalized_domain, cdx_url,
                 retriesLeft, attempts, response, data, output, exc, spinners, line,
                 fileOpens, fileState, interrupts>>

\* lines 593-598
HandleUnexpected ==
  /\ pc = "except"
  /\ exc.type \notin {"RequestException", "JSONDecodeError", "KeyboardInterrupt"}
  /\ Emit(<<"unexpected_error">>)
  /\ Exit(1)
  /\ UNCHANGED <<call, result, ret, args, fileWritable, normalized_domain, cdx_url,
                 retriesLeft, attempts, response, data, output, exc, spinners, line,
                 fileOpens, fileState, interrupts>>

\* ---- SIGINT: Python raises KeyboardInterrupt in the main thread, wherever it is

MaxInterrupts == 1

\* inside the try block of main no inner except clause catches it (they name
\* RequestException, Exception and IOError): the clause of line 590 does
InterruptInTry ==
  /\ InTry
  /\ interrupts < MaxInterrupts
  /\ interrupts' = interrupts + 1
  /\ exc' = [type |-> "KeyboardInterrupt", origin |-> "signal"]
  /\ pc' = "except"
  /\ UNCHANGED <<call, result, ret, args, fileWritable, normalized_domain, cdx_url,
                 retriesLeft, attempts, response, data, output, spinners, line,
                 stdout, fileOpens, fileState, exitStatus>>

\* before the try block (lines 462-504) and inside the except clauses nothing
\* catches it: the interpreter prints the traceback to stderr and the process
\* ends by SIGINT, which a shell reports as status 130
InterruptOutsideTry ==
  /\ pc \in BeforeTryPcs \cup StopPcs \cup {"except"}
  /\ ~InTry
  /\ interrupts < MaxInterrupts
  /\ interrupts' = interrupts + 1
  /\ exc' = [type |-> "KeyboardInterrupt", origin |-> "signal"]
  /\ Exit(130)
  /\ UNCHANGED <<call, result, ret, args, fileWritable, normalized_domain, cdx_url,
                 retriesLeft, attempts, response, data, output, spinners, line,
                 stdout, fileOpens, fileState>>

\* ---- lines 36-66: LoadingSpinner

\* the spinner a stop() under way is called on: the one started last
Current == Len(spinners)

\* line 54
StopFlag ==
  /\ pc = "stop_flag"
  /\ spinners' = [spinners EXCEPT ![Current].running = FALSE]
  /\ pc' = "stop_join"
  /\ UNCHANGED <<call, result, ret, args, fileWritable, normalized_domain, cdx_url,
                 retriesLeft, attempts, response, data, output, exc, line, stdout,
                 fileOpens, fileState, exitStatus, interrupts>>

\* lines 55-56: join returns once the thread has ended
StopJoin ==
  /\ pc = "stop_join"
  /\ spinners[Current].tpc = "dead"
  /\ pc' = "stop_clear"
  /\ UNCHANGED <<call, result, ret, args, fileWritable, normalized_domain, cdx_url,
                 retriesLeft, attempts, response, data, output, exc, spinners, line,
                 stdout, fileOpens, fileState, exitStatus, interrupts>>

\* line 58, and stop returns to its caller
StopClear ==
  /\ pc = "stop_clear"
  /\ line' = "clear"
  /\ spinners' = [spinners EXCEPT ![Current].cleared = TRUE]
  /\ pc' = ret
  /\ ret' = "none"
  /\ UNCHANGED <<call, result, args, fileWritable, normalized_domain, cdx_url,
                 retriesLeft, attempts, response, data, output, exc, stdout,
                 fileOpens, fileState, exitStatus, interrupts>>

\* line 63: the thread reads the flag
SpinCheck(i) ==
  /\ pc # "done"
  /\ spinners[i].tpc = "check"
  /\ spinners' = [spinners EXCEPT ![i].tpc = IF spinners[i].running THEN "paint" ELSE "dead"]
  /\ UNCHANGED <<call, result, pc, ret, args, fileWritable, normalized_domain,
                 cdx_url, retriesLeft, attempts, response, data, output, exc, line,
                 stdout, fileOpens, fileState, exitStatus, interrupts>>

\* lines 64-66: it paints the status line and sleeps
SpinPaint(i) ==
  /\ pc # "done"
  /\ spinners[i].tpc = "paint"
  /\ line' = "spinner"
  /\ spinners' = [spinners EXCEPT ![i].tpc = "check"]
  /\ UNCHANGED <<call, result, pc, ret, args, fileWritable, normalized_domain,
                 cdx_url, retriesLeft, attempts, response, data, output, exc,
                 stdout, fileOpens, fileState, exitStatus, interrupts>>

SpinnerThread == \E i \in 1..Len(spinners) : SpinCheck(i) \/ SpinPaint(i)

MainThread ==
  \/ ParseArgs \/ NoArguments \/ MissingDomain \/ InitTool
  \/ StartupStart \/ StartupSleep \/ StartupReady
  \/ Normalize \/ BuildUrl
  \/ FetchEnter \/ GetOk \/ GetHttpError \/ GetRetry \/ GetExhausted
  \/ FetchProcess \/ FetchParseOk \/ FetchParseError \/ FetchExcept \/ FetchReraise
  \/ FetchReturn
  \/ ExtSkip \/ ExtEnter \/ ExtWork \/ ExtDone
  \/ StatusSkip \/ StatusWarn \/ StatusEnter \/ StatusWork \/ StatusDone
  \/ FormatEnter \/ FormatSleep \/ Format
  \/ Show \/ ShowEncodeError
  \/ SaveEnter \/ SaveSleep \/ SaveOk \/ SaveEncodeError \/ SaveFail \/ PrintSaved
  \/ HandleNetwork \/ HandleJson \/ HandleInterrupt \/ HandleUnexpected
  \/ StopFlag \/ StopJoin \/ StopClear

Next == MainThread \/ SpinnerThread \/ InterruptInTry \/ InterruptOutsideTry

Spec == Init /\ [][Next]_vars

(***************************************************************************)
(* The claims about the run                                                *)
(***************************************************************************)

Finished == pc = "done"

LastPrinted == IF stdout = <<>> THEN "nothing" ELSE stdout[Len(stdout)]

\* every stage ran to its end: the results were shown, or saved and reported
AllStagesComplete == LastPrinted \in {"results", "completed", "results_saved"}

\* C1: a run that received an interrupt ends with the cancellation message and
\* exit status 0, wherever the interrupt arrived
C1_InterruptExitsZero ==
  Finished /\ interrupts > 0 => exitStatus = 0 /\ LastPrinted = "cancelled"

\* C2: a run that no interrupt cut short ends, and with the status of its
\* outcome: 0 when every stage completed or the command line was bare, 1 when -u
\* is missing, when the fetch failed (transport error, error status, malformed
\* JSON), when the file could not be written, or on any other error; no run that
\* raised an error ends with status 0
C2_ExitStatusByOutcome ==
  /\ (pc \notin {"done", "idle"}) =>
       ENABLED MainThread \/ (pc = "stop_join" /\ ENABLED SpinnerThread)
  /\ Finished /\ interrupts = 0 =>
       /\ args.kind = "none" => exitStatus = 0
       /\ (args.kind = "parsed" /\ args.url = <<>>) => exitStatus = 1
       /\ exc.origin \in {"get", "raise_for_status", "json"} => exitStatus = 1
       /\ exc.origin = "save_to_file" => exitStatus = 1
       /\ exc.type # "none" => exitStatus = 1
       /\ AllStagesComplete => exitStatus = 0
       /\ (args.kind = "parsed" /\ args.url # <<>> /\ exitStatus = 0) =>
            AllStagesComplete /\ exc = NoException

\* a run whose GET failed after its retries and that ended with status 1
C2_Witness ==
  Finished /\ interrupts = 0 /\ exc.origin = "get" /\ exitStatus = 1

Stopped(sp) == ~sp.running /\ sp.tpc = "dead" /\ sp.cleared

Alive(sps) == {i \in 1..Len(sps) : sps[i].tpc # "dead"}

\* C9: when the main thread prints, every spinner started before has been
\* stopped, joined and cleared; at most one spinner thread is alive; no spinner
\* paints after its stop() returned
C9_SpinnersStoppedBeforeOutput ==
  [][/\ stdout' # stdout => \A i \in 1..Len(spinners) : Stopped(spinners[i])
     /\ Cardinality(Alive(spinners')) <= 1
     /\ \A i \in 1..Len(spinners) :
          spinners[i].tpc = "paint" /\ spinners'[i].tpc = "check" =>
            ~spinners[i].cleared]_vars

\* C10: the collection the Fetcher returns has the shape of the output mode:
\* strings with --text, lists without
C10_ShapeMatchesFlag ==
  pc = "fetch_return" =>
    \A i \in 1..Len(data) : data[i].tag = IF args.text THEN "str" ELSE "list"

\* C11: no stage after the Fetcher raises: filter_by_extensions,
\* filter_by_status_codes and the formatter return a result for every collection
\* a successful response yields
C11_StagesTotal ==
  exc.origin \notin {"filter_by_extensions", "filter_by_status_codes", "format"}

\* the elements of a sequence
Range(f) == {f[i] : i \in DOMAIN f}

\* the main thread has entered main and not reached the output stage (lines
\* 564-582), nor an except clause
BeforeOutput ==
  /\ pc \notin {"output_enter", "save_sleep", "save", "saved", "except", "done", "idle"}
  /\ pc \in StopPcs => ret # "save"

\* the fetch, every requested filter and the formatter have returned, and
\* output is what they make of the response
StagesCompleted ==
  LET parsed == ParseResponse(response)
      ext == IF args.ext = <<>> THEN parsed
             ELSE filter_by_extensions(parsed.val, args.ext, args.text)
      status == IF args.status = {} \/ args.text THEN ext
                ELSE filter_by_status_codes(ext.val, args.status)
      formatted == IF args.text THEN format_text_list(status.val)
                   ELSE format_json_table(status.val)
  IN  /\ exc = NoException
      /\ attempts >= 1
      /\ parsed.ok /\ ext.ok /\ status.ok /\ formatted.ok
      /\ data = status.val
      /\ output = formatted.val
      /\ "retrieved" \in Range(stdout)
      /\ args.ext # <<>> => "filtered_ext" \in Range(stdout)
      /\ (args.status # {} /\ ~args.text) => "filtered_status" \in Range(stdout)

\* C12: the output file is opened at most once, and only after the fetch, the
\* requested filters and the formatter completed without error; a run that ends
\* with a network, decode or unexpected error, or that is cancelled before the
\* output stage, leaves the file untouched; "Results saved" is printed only
\* after a write that succeeded
C12_FileTouchedOnlyOnSuccess ==
  /\ [](fileOpens <= 1)
  /\ [][fileOpens' # fileOpens => pc = "save" /\ StagesCompleted]_vars
  /\ [](Finished /\ LastPrinted \in {"network_error", "json_error", "unexpected_error"}
          => fileState = "untouched")
  /\ [][interrupts' # interrupts /\ BeforeOutput => fileState' = "untouched"]_vars
  /\ [][exc.type = "KeyboardInterrupt" => fileState' = fileState]_vars
  /\ [][stdout' # stdout /\ LastPrinted' = "results_saved" => fileState = "written"]_vars

====
